---- MODULE Spec2Model ----
(***************************************************************************)
(* Model of src/main.py: the RSS -> caption -> thumbnail -> Instagram      *)
(* workflow.  A run is one invocation of main().  Two runs (Runs) execute  *)
(* against the same world: the same feed contents, the same completion     *)
(* endpoint answers and the same article pages.  Each run has its own      *)
(* module state (LAST_CHECKED) and its own locals.                         *)
(*                                                                         *)
(* Python values are modelled as strings; None is the string "None".       *)
(* An uncaught exception puts the run in pc = "raised", with exc naming    *)
(* the source line that raised.                                            *)
(*                                                                         *)
(* log, calls and requests are observation sequences: what the run has     *)
(* printed, which component functions main() has called (with the value    *)
(* each returned), and which HTTP requests post_to_instagram has sent.     *)
(***************************************************************************)
EXTENDS Integers, Sequences, FiniteSets

VARIABLES
    feed,             \* world: feed.entries as feedparser returns them
    completionOf,     \* world: completion endpoint outcome per prompt
    pageOf,           \* world: og:image outcome per article page
    pc,               \* run -> position in main() / post_to_instagram()
    exc,              \* run -> source line of the uncaught exception
    LAST_CHECKED,     \* run -> module global LAST_CHECKED
    new_articles,     \* run -> main.new_articles
    idx,              \* run -> position of `article` in new_articles
    caption,          \* run -> main.caption
    image_url,        \* run -> main.image_url
    media_response,   \* run -> body text of post_to_instagram.media_response
    media_id,         \* run -> post_to_instagram.media_id
    publish_response, \* run -> post_to_instagram.publish_response
    log,              \* run -> lines printed
    calls,            \* run -> component calls made by main()
    requests          \* run -> HTTP requests sent by post_to_instagram()

world == <<feed, completionOf, pageOf>>
locals == <<new_articles, idx, caption, image_url, media_response, media_id,
            publish_response>>
observed == <<log, calls, requests>>
vars == <<feed, completionOf, pageOf, pc, exc, LAST_CHECKED, new_articles, idx,
          caption, image_url, media_response, media_id, publish_response,
          log, calls, requests>>

\* ---------------------------------------------------------------- bounds

MaxFeed == 2

Runs == {"run_a", "run_b"}

\* ---------------------------------------------------------------- values

None == "None"
Unset == "unset"
Raises == "raise"

\* Feed entries the world can serve.  The first has an author, the second
\* has none, the third lacks the summary attribute main.py reads.
EntryPool ==
    { [title |-> "T1", link |-> "https://a/1", published |-> 1,
       summary |-> "S1", author |-> "A1"],
      [title |-> "T2", link |-> "https://a/2", published |-> 3,
       summary |-> "S2"],
      [title |-> "T3", link |-> "https://a/3", published |-> 2] }

RequiredAttrs == {"title", "link", "published", "summary"}

Feeds == UNION { [1..n -> EntryPool] : n \in 0..MaxFeed }

\* Values of datetime.utcnow() the runs can observe.
Timestamps == {0, 2}

Links == { e.link : e \in EntryPool }

\* The f-string of generate_caption: it mentions the title and the url only.
prompt(article_title, article_url) == <<article_title, article_url>>

Prompts == { prompt(e.title, e.link) : e \in EntryPool }

\* choices[0].message.content of the completion for a prompt.
CompletionText(p) ==
    CASE p[1] = "T1" -> "Caption text https://a/1"
      [] p[1] = "T2" -> "Caption text https://a/2"
      [] OTHER       -> "Caption text https://a/3"

CompletionOutcomes == {"ok", Raises}

\* The content attribute of the og:image tag of a page that has one.
OgImage(article_url) ==
    CASE article_url = "https://a/1" -> "https://a/img1.jpg"
      [] article_url = "https://a/2" -> "https://a/img2.jpg"
      [] OTHER                       -> "https://a/img3.jpg"

\* A page has no og:image tag, a tag with empty content, a tag with a url,
\* or fetching it fails (request error, or KeyError on a tag without content).
PageOutcomes == {"no_tag", "empty_content", "tag", Raises}

\* Body texts the media endpoint can answer with.
MediaBodies == { "{id:123}", "{id:456}", "{id:}", "{error:x}", "<html>" }

\* Response.json(): the parse result, or ok = FALSE when the body is not JSON.
\* id is what .get("id") gives on the parsed object.
json(text) ==
    CASE text = "{id:123}"  -> [ok |-> TRUE,  id |-> "123"]
      [] text = "{id:456}"  -> [ok |-> TRUE,  id |-> "456"]
      [] text = "{id:}"     -> [ok |-> TRUE,  id |-> ""]
      [] text = "{error:x}" -> [ok |-> TRUE,  id |-> None]
      [] text = "{id:789}"  -> [ok |-> TRUE,  id |-> "789"]
      [] OTHER              -> [ok |-> FALSE, id |-> None]

HTTP_OK == 200

StatusCodes == {HTTP_OK, 400}

NoResponse == [status_code |-> 0, text |-> Unset]

PublishResponses ==
    { [status_code |-> s, text |-> t] :
        s \in StatusCodes, t \in {"{id:789}", "{error:x}", "<html>"} }
          \ { [status_code |-> HTTP_OK, text |-> "{error:x}"],
              [status_code |-> 400, text |-> "{id:789}"] }

\* ------------------------------------------------------- pure functions

\* Mutant of news_item: entry.get("author") without the default.
news_item_no_default(entry) ==
    [ title     |-> entry.title,
      link      |-> entry.link,
      published |-> entry.published,
      summary   |-> entry.summary,
      author    |-> IF "author" \in DOMAIN entry THEN entry.author ELSE None ]

\* main.py:38-44, the dict built from one feed entry.
news_item(entry) ==
    [ title     |-> entry.title,
      link      |-> entry.link,
      published |-> entry.published,
      summary   |-> entry.summary,
      author    |-> IF "author" \in DOMAIN entry THEN entry.author ELSE "Unknown" ]

\* The entries published after a cutoff, in feed order.
RECURSIVE PublishedSince(_, _)
PublishedSince(entries, last_checked) ==
    IF entries = <<>> THEN <<>>
    ELSE IF Head(entries).published > last_checked
           THEN <<Head(entries)>> \o PublishedSince(Tail(entries), last_checked)
           ELSE PublishedSince(Tail(entries), last_checked)

\* Mutant of get_latest_articles: the filter its docstring describes.
get_latest_articles_since(entries, last_checked) ==
    LET recent == PublishedSince(entries, last_checked)
    IN [ k \in 1..Len(recent) |-> [ title     |-> recent[k].title,
                                    link      |-> recent[k].link,
                                    published |-> recent[k].published,
                                    summary   |-> recent[k].summary,
                                    author    |-> IF "author" \in DOMAIN recent[k]
                                                    THEN recent[k].author
                                                    ELSE "Unknown" ] ]

\* main.py:25-49.  last_checked is a parameter the body never reads.
get_latest_articles(entries, last_checked) ==
    [ k \in 1..Len(entries) |-> news_item(entries[k]) ]

\* entry.title / .link / .published / .summary raise AttributeError on an
\* entry without the attribute.
EntryRaises(entry) == ~(RequiredAttrs \subseteq DOMAIN entry)

\* Mutant of NoThumbnail: `image_url is None`.
NoThumbnailNoneOnly(url) == url = None

\* main.py:152, `not image_url`: None and the empty string are both falsy.
NoThumbnail(url) == url = None \/ url = ""

\* Mutant of NoMediaId: `media_id is None`.
NoMediaIdNoneOnly(id) == id = None

\* main.py:109, `not media_id`.
NoMediaId(id) == id = None \/ id = ""

\* main.py:83-86, what fetch_thumbnail returns for a page outcome.
thumbnail_of(article_url, outcome) ==
    CASE outcome = "tag"           -> OgImage(article_url)
      [] outcome = "empty_content" -> ""
      [] OTHER                     -> None

\* Mutant of media_payload: the two fields exchanged.
media_payload_swapped(img, cap) ==
    [url |-> "media", image_url |-> cap, caption |-> img, creation_id |-> None]

\* main.py:95-100.
media_payload(img, cap) ==
    [url |-> "media", image_url |-> img, caption |-> cap, creation_id |-> None]

\* main.py:114-118.
publish_payload(id) ==
    [url |-> "media_publish", image_url |-> None, caption |-> None,
     creation_id |-> id]

\* One component call made by main(): the function, the position of the
\* article it was called for, its arguments and what it returned.
Call(fn, k, args, ret) == [fn |-> fn, idx |-> k, args |-> args, ret |-> ret]

Line(msg, arg) == [msg |-> msg, arg |-> arg]

\* ------------------------------------------------------------ the runs

TypeOK ==
    /\ feed \in Feeds
    /\ completionOf \in [Prompts -> {Unset} \cup CompletionOutcomes]
    /\ pageOf \in [Links -> {Unset} \cup PageOutcomes]
    /\ LAST_CHECKED \in [Runs -> Timestamps]
    /\ idx \in [Runs -> 0..(MaxFeed + 1)]
    /\ \A r \in Runs : publish_response[r] \in PublishResponses \cup {NoResponse}

Init ==
    /\ feed \in Feeds
    /\ completionOf = [p \in Prompts |-> Unset]
    /\ pageOf = [l \in Links |-> Unset]
    /\ pc = [r \in Runs |-> "start"]
    /\ exc = [r \in Runs |-> None]
    /\ LAST_CHECKED \in [Runs -> Timestamps]           \* main.py:22
    /\ new_articles = [r \in Runs |-> <<>>]
    /\ idx = [r \in Runs |-> 0]
    /\ caption = [r \in Runs |-> Unset]
    /\ image_url = [r \in Runs |-> Unset]
    /\ media_response = [r \in Runs |-> Unset]
    /\ media_id = [r \in Runs |-> Unset]
    /\ publish_response = [r \in Runs |-> NoResponse]
    /\ log = [r \in Runs |-> <<>>]
    /\ calls = [r \in Runs |-> <<>>]
    /\ requests = [r \in Runs |-> <<>>]

article(r) == new_articles[r][idx[r]]

Goto(r, where) == pc' = [pc EXCEPT ![r] = where]

Raise(r, line) ==
    /\ pc' = [pc EXCEPT ![r] = "raised"]
    /\ exc' = [exc EXCEPT ![r] = line]

print_line(r, msg, arg) == log' = [log EXCEPT ![r] = Append(@, Line(msg, arg))]

\* main.py:141 with 30-49: read the whole feed.
FetchArticles(r) ==
    /\ pc[r] = "start"
    /\ IF \E k \in 1..Len(feed) : EntryRaises(feed[k])
         THEN /\ Raise(r, "main.py:42")
              /\ UNCHANGED <<new_articles, idx>>
         ELSE /\ new_articles' =
                    [new_articles EXCEPT ![r] = get_latest_articles(feed, LAST_CHECKED[r])]
              /\ idx' = [idx EXCEPT ![r] = 1]
              /\ Goto(r, "for")
              /\ exc' = exc
    /\ UNCHANGED <<world, LAST_CHECKED, caption, image_url, media_response,
                   media_id, publish_response, observed>>

\* Mutant of ForArticle: the run ends at the end of the loop, without the
\* LAST_CHECKED update.
ForArticleSkipsUpdate(r) ==
    /\ pc[r] = "for"
    /\ IF idx[r] <= Len(new_articles[r])
         THEN Goto(r, "caption")
         ELSE Goto(r, "done")
    /\ UNCHANGED <<world, exc, LAST_CHECKED, locals, observed>>

\* main.py:144, the loop head: the next article, or the end of the loop.
ForArticle(r) ==
    /\ pc[r] = "for"
    /\ IF idx[r] <= Len(new_articles[r])
         THEN Goto(r, "caption")
         ELSE Goto(r, "update")
    /\ UNCHANGED <<world, exc, LAST_CHECKED, locals, observed>>

\* main.py:146 with 52-68.
GenerateCaption(r) ==
    /\ pc[r] = "caption"
    /\ LET a == article(r)
           p == prompt(a.title, a.link)
       IN \E o \in CompletionOutcomes :
            /\ completionOf[p] \in {Unset, o}
            /\ completionOf' = [completionOf EXCEPT ![p] = o]
            /\ IF o = Raises
                 THEN /\ Raise(r, "main.py:62")
                      /\ calls' = [calls EXCEPT ![r] = Append(@,
                            Call("generate_caption", idx[r],
                                 <<a.title, a.summary, a.link>>, Raises))]
                      /\ UNCHANGED caption
                 ELSE /\ caption' = [caption EXCEPT ![r] = CompletionText(p)]
                      /\ calls' = [calls EXCEPT ![r] = Append(@,
                            Call("generate_caption", idx[r],
                                 <<a.title, a.summary, a.link>>, CompletionText(p)))]
                      /\ Goto(r, "thumbnail")
                      /\ exc' = exc
    /\ UNCHANGED <<feed, pageOf, LAST_CHECKED, new_articles, idx, image_url,
                   media_response, media_id, publish_response, log, requests>>

\* main.py:149 with 71-86.
FetchThumbnail(r) ==
    /\ pc[r] = "thumbnail"
    /\ LET a == article(r)
       IN \E o \in PageOutcomes :
            /\ pageOf[a.link] \in {Unset, o}
            /\ pageOf' = [pageOf EXCEPT ![a.link] = o]
            /\ IF o = Raises
                 THEN /\ Raise(r, "main.py:77")
                      /\ calls' = [calls EXCEPT ![r] = Append(@,
                            Call("fetch_thumbnail", idx[r], <<a.link>>, Raises))]
                      /\ UNCHANGED image_url
                 ELSE /\ image_url' =
                            [image_url EXCEPT ![r] = thumbnail_of(a.link, o)]
                      /\ calls' = [calls EXCEPT ![r] = Append(@,
                            Call("fetch_thumbnail", idx[r], <<a.link>>,
                                 thumbnail_of(a.link, o)))]
                      /\ Goto(r, "check")
                      /\ exc' = exc
    /\ UNCHANGED <<feed, completionOf, LAST_CHECKED, new_articles, idx, caption,
                   media_response, media_id, publish_response, log, requests>>

\* main.py:152-154: no thumbnail, print and continue with the next article.
NoThumbnailContinue(r) ==
    /\ pc[r] = "check"
    /\ NoThumbnail(image_url[r])
    /\ print_line(r, "No thumbnail found for article:", article(r).title)
    /\ idx' = [idx EXCEPT ![r] = @ + 1]
    /\ Goto(r, "for")
    /\ UNCHANGED <<world, exc, LAST_CHECKED, new_articles, caption, image_url,
                   media_response, media_id, publish_response, calls, requests>>

\* main.py:157: the call of post_to_instagram(image_url, caption).
CallPublisher(r) ==
    /\ pc[r] = "check"
    /\ ~NoThumbnail(image_url[r])
    /\ calls' = [calls EXCEPT ![r] = Append(@,
            Call("post_to_instagram", idx[r], <<image_url[r], caption[r]>>, None))]
    /\ Goto(r, "media")
    /\ UNCHANGED <<world, exc, LAST_CHECKED, locals, log, requests>>

\* main.py:95-103: the phase-1 request and its response.
PostMedia(r) ==
    /\ pc[r] = "media"
    /\ requests' = [requests EXCEPT ![r] =
            Append(@, media_payload(image_url[r], caption[r]))]
    /\ \E body \in MediaBodies :
            media_response' = [media_response EXCEPT ![r] = body]
    /\ Goto(r, "media_id")
    /\ UNCHANGED <<world, exc, LAST_CHECKED, new_articles, idx, caption,
                   image_url, media_id, publish_response, log, calls>>

\* main.py:106: media_response.json().get("id").
ExtractMediaId(r) ==
    /\ pc[r] = "media_id"
    /\ IF json(media_response[r]).ok
         THEN /\ media_id' = [media_id EXCEPT ![r] = json(media_response[r]).id]
              /\ Goto(r, "media_check")
              /\ exc' = exc
         ELSE /\ Raise(r, "main.py:106")
              /\ UNCHANGED media_id
    /\ UNCHANGED <<world, LAST_CHECKED, new_articles, idx, caption, image_url,
                   media_response, publish_response, observed>>

\* Mutant of MediaError: the upload is tried again after a failure.
MediaErrorRetries(r) ==
    /\ pc[r] = "media_check"
    /\ NoMediaId(media_id[r])
    /\ print_line(r, "Error uploading media:", media_response[r])
    /\ Goto(r, "media")
    /\ UNCHANGED <<world, exc, LAST_CHECKED, locals, calls, requests>>

\* main.py:109-111: no media id, print the response and return.
MediaError(r) ==
    /\ pc[r] = "media_check"
    /\ NoMediaId(media_id[r])
    /\ print_line(r, "Error uploading media:", media_response[r])
    /\ Goto(r, "break")
    /\ UNCHANGED <<world, exc, LAST_CHECKED, locals, calls, requests>>

\* main.py:114-121: the phase-2 request and its response.
PostPublish(r) ==
    /\ pc[r] = "media_check"
    /\ ~NoMediaId(media_id[r])
    /\ requests' = [requests EXCEPT ![r] = Append(@, publish_payload(media_id[r]))]
    /\ \E resp \in PublishResponses :
            publish_response' = [publish_response EXCEPT ![r] = resp]
    /\ Goto(r, "publish_check")
    /\ UNCHANGED <<world, exc, LAST_CHECKED, new_articles, idx, caption,
                   image_url, media_response, media_id, log, calls>>

\* main.py:124-125.
PublishSuccess(r) ==
    /\ pc[r] = "publish_check"
    /\ publish_response[r].status_code = HTTP_OK
    /\ print_line(r, "Post published successfully!", "")
    /\ Goto(r, "break")
    /\ UNCHANGED <<world, exc, LAST_CHECKED, locals, calls, requests>>

\* main.py:126-127: the print evaluates publish_response.json() first.
PublishError(r) ==
    /\ pc[r] = "publish_check"
    /\ publish_response[r].status_code # HTTP_OK
    /\ IF json(publish_response[r].text).ok
         THEN /\ print_line(r, "Error publishing post:", publish_response[r].text)
              /\ Goto(r, "break")
              /\ exc' = exc
         ELSE /\ Raise(r, "main.py:127")
              /\ UNCHANGED log
    /\ UNCHANGED <<world, LAST_CHECKED, locals, calls, requests>>

\* Mutant of Break: the loop goes on to the next article after a post.
BreakContinues(r) ==
    /\ pc[r] = "break"
    /\ idx' = [idx EXCEPT ![r] = @ + 1]
    /\ Goto(r, "for")
    /\ UNCHANGED <<world, exc, LAST_CHECKED, new_articles, caption, image_url,
                   media_response, media_id, publish_response, observed>>

\* main.py:160: break, after post_to_instagram has returned.
Break(r) ==
    /\ pc[r] = "break"
    /\ Goto(r, "update")
    /\ UNCHANGED <<world, exc, LAST_CHECKED, locals, observed>>

\* main.py:163: LAST_CHECKED = datetime.utcnow(); the clock does not go back.
UpdateLastChecked(r) ==
    /\ pc[r] = "update"
    /\ \E t \in Timestamps :
            /\ t >= LAST_CHECKED[r]
            /\ LAST_CHECKED' = [LAST_CHECKED EXCEPT ![r] = t]
    /\ Goto(r, "done")
    /\ UNCHANGED <<world, exc, locals, observed>>

Next ==
    \E r \in Runs :
        \/ FetchArticles(r)
        \/ ForArticle(r)
        \/ GenerateCaption(r)
        \/ FetchThumbnail(r)
        \/ NoThumbnailContinue(r)
        \/ CallPublisher(r)
        \/ PostMedia(r)
        \/ ExtractMediaId(r)
        \/ MediaError(r)
        \/ PostPublish(r)
        \/ PublishSuccess(r)
        \/ PublishError(r)
        \/ Break(r)
        \/ UpdateLastChecked(r)

Spec == Init /\ [][Next]_vars

\* Each run is a sequential program: its next step is taken whenever one
\* is enabled (every external call returns or raises).
Run(r) ==
    \/ FetchArticles(r) \/ ForArticle(r) \/ GenerateCaption(r)
    \/ FetchThumbnail(r) \/ NoThumbnailContinue(r) \/ CallPublisher(r)
    \/ PostMedia(r) \/ ExtractMediaId(r) \/ MediaError(r) \/ PostPublish(r)
    \/ PublishSuccess(r) \/ PublishError(r) \/ Break(r) \/ UpdateLastChecked(r)

FairSpec == Spec /\ \A r \in Runs : WF_vars(Run(r))

\* --------------------------------------------------------- observations

\* Positions in calls[r] of the calls of fn.
CallsOf(r, fn) == { k \in 1..Len(calls[r]) : calls[r][k].fn = fn }

\* Positions in requests[r] of the requests to an endpoint.
RequestsTo(r, url) == { k \in 1..Len(requests[r]) : requests[r][k].url = url }

\* Positions in log[r] of the lines with a message.
LinesOf(r, msg) == { k \in 1..Len(log[r]) : log[r][k].msg = msg }

\* A value that is missing (None) or empty.
Absent(v) == v \in {None, ""}

DriverCalls == {"generate_caption", "fetch_thumbnail"}

\* The feed was read without an exception.
Fetched(r) == pc[r] # "start" /\ exc[r] # "main.py:42"

\* The phase-1 response of run r was JSON without a usable id.
Phase1Failed(r) ==
    /\ media_response[r] # Unset
    /\ json(media_response[r]).ok
    /\ Absent(json(media_response[r]).id)

\* Run r has received a phase-2 response and acted on it.
Phase2Handled(r) == publish_response[r] # NoResponse /\ pc[r] # "publish_check"

Terminal(r) == pc[r] \in {"done", "raised"}

\* ---------------------------------------------------------------- claims

C2_PublishAtMostOnce ==
    \A r \in Runs :
        /\ Cardinality(CallsOf(r, "post_to_instagram")) <= 1
        /\ Cardinality(RequestsTo(r, "media")) <= 1
        /\ Cardinality(RequestsTo(r, "media_publish")) <= 1
        /\ Len(requests[r]) <= 2
        /\ CallsOf(r, "post_to_instagram") = {} => requests[r] = <<>>

\* A finished run whose upload failed while another article was still left
\* in the feed: one media request, no second attempt.
C2_Witness ==
    \E r \in Runs :
        /\ pc[r] = "done"
        /\ Phase1Failed(r)
        /\ idx[r] < Len(new_articles[r])
        /\ Cardinality(RequestsTo(r, "media")) = 1

\* C3: when the phase-1 response JSON has no id (missing or empty), the
\* Publisher prints the response body and returns; no media_publish request
\* is ever sent.
C3_NoIdNoPhase2 ==
    \A r \in Runs :
        Phase1Failed(r) =>
            /\ RequestsTo(r, "media_publish") = {}
            /\ publish_response[r] = NoResponse
            /\ pc[r] \notin {"media_id", "media_check"} =>
                    /\ pc[r] \in {"break", "update", "done"}
                    /\ log[r][Len(log[r])] =
                            Line("Error uploading media:", media_response[r])

\* A finished run whose phase-1 response carried an empty id.
C3_Witness ==
    \E r \in Runs :
        /\ pc[r] = "done"
        /\ media_response[r] = "{id:}"
        /\ Cardinality(LinesOf(r, "Error uploading media:")) = 1

\* C4 (as stated): a media_publish request is sent only after a phase-1
\* response carrying an id, with exactly that id as creation_id; a phase-2
\* response with status 200 gives the success line, any other status gives
\* the error line, and the Publisher sends nothing further.
C4_PublishPhase ==
    \A r \in Runs :
        /\ \A k \in RequestsTo(r, "media_publish") :
                /\ k = 2
                /\ requests[r][1].url = "media"
                /\ json(media_response[r]).ok
                /\ ~Absent(json(media_response[r]).id)
                /\ requests[r][k].creation_id = json(media_response[r]).id
        /\ publish_response[r] # NoResponse => Len(requests[r]) = 2
        /\ Phase2Handled(r) =>
                /\ Len(log[r]) >= 1
                /\ log[r][Len(log[r])] =
                        IF publish_response[r].status_code = HTTP_OK
                          THEN Line("Post published successfully!", "")
                          ELSE Line("Error publishing post:", publish_response[r].text)

\* C5: for every article whose thumbnail resolves to absent the driver
\* prints the "no thumbnail" line with that article's title and never calls
\* the Publisher for it; the Publisher is only called with a present url.
C5_NoThumbnailNoPublish ==
    \A r \in Runs :
        LET absent == { k \in CallsOf(r, "fetch_thumbnail") :
                            Absent(calls[r][k].ret) }
            pending == IF pc[r] = "check" /\ Absent(image_url[r]) THEN 1 ELSE 0
            said == LinesOf(r, "No thumbnail found for article:")
        IN  /\ Cardinality(said) = Cardinality(absent) - pending
            /\ \A k \in absent :
                /\ \A m \in CallsOf(r, "post_to_instagram") :
                        calls[r][m].idx # calls[r][k].idx
                /\ (pc[r] = "check" /\ idx[r] = calls[r][k].idx)
                     \/ \E n \in said :
                            /\ n = calls[r][k].idx
                            /\ log[r][n].arg = new_articles[r][calls[r][k].idx].title
            /\ \A m \in CallsOf(r, "post_to_instagram") :
                    calls[r][m].args[1] \in { OgImage(l) : l \in Links }
            /\ \A m \in RequestsTo(r, "media") :
                    requests[r][m].image_url \notin {None, "", Unset}

\* A finished run that skipped an article whose og:image tag had empty
\* content and one without the tag, and never called the Publisher.
C5_Witness ==
    \E r \in Runs :
        /\ pc[r] = "done"
        /\ Len(new_articles[r]) = 2
        /\ \E k \in CallsOf(r, "fetch_thumbnail") : calls[r][k].ret = ""
        /\ \E k \in CallsOf(r, "fetch_thumbnail") : calls[r][k].ret = None
        /\ Len(log[r]) = 2
        /\ CallsOf(r, "post_to_instagram") = {}

\* C6 (as stated): a Publisher failure in either phase (phase 1 without an
\* id, phase 2 with a status other than 200) is only printed; the Publisher
\* returns without raising and the driver goes on to the LAST_CHECKED update
\* as after a successful publish.
C6_FailureOnlyLogged ==
    \A r \in Runs :
        /\ (Phase1Failed(r) /\ pc[r] \notin {"media_id", "media_check"}) =>
                /\ pc[r] \in {"break", "update", "done"}
                /\ LinesOf(r, "Error uploading media:") # {}
        /\ (Phase2Handled(r) /\ publish_response[r].status_code # HTTP_OK) =>
                /\ pc[r] \in {"break", "update", "done"}
                /\ LinesOf(r, "Error publishing post:") # {}

C9_EndToEnd ==
    \A r \in Runs :
        (Phase2Handled(r) /\ publish_response[r].status_code = HTTP_OK) =>
            /\ Cardinality(LinesOf(r, "Post published successfully!")) = 1
            /\ Len(requests[r]) = 2
            /\ \E p \in CallsOf(r, "post_to_instagram") :
               \E t \in CallsOf(r, "fetch_thumbnail") :
               \E c \in CallsOf(r, "generate_caption") :
                    /\ calls[r][t].idx = calls[r][p].idx
                    /\ calls[r][c].idx = calls[r][p].idx
                    /\ calls[r][c].args[3] = calls[r][t].args[1]
                    /\ calls[r][c].args[3] = new_articles[r][calls[r][p].idx].link
                    /\ calls[r][c].args[1] = new_articles[r][calls[r][p].idx].title
                    /\ requests[r][1].url = "media"
                    /\ requests[r][1].image_url = calls[r][t].ret
                    /\ requests[r][1].caption = calls[r][c].ret
                    /\ requests[r][1].image_url = OgImage(calls[r][t].args[1])

\* The scenario of the specification: a feed of one entry, a caption, a
\* thumbnail, an id from phase 1 and status 200 from phase 2.
C9_Witness ==
    \E r \in Runs :
        /\ pc[r] = "done"
        /\ Len(new_articles[r]) = 1
        /\ new_articles[r][1].author = "Unknown"
        /\ json(media_response[r]).id = "123"
        /\ publish_response[r].status_code = HTTP_OK
        /\ log[r] = <<Line("Post published successfully!", "")>>
        /\ requests[r][1].image_url = "https://a/img2.jpg"
        /\ requests[r][1].caption = "Caption text https://a/2"

\* Loop iterations run r has entered: one Caption Generator call each.
Iterations(r) == Cardinality(CallsOf(r, "generate_caption"))

UpdateIsLastStep ==
    \A r \in Runs :
        /\ (pc[r] # "done" /\ pc'[r] = "done") =>
                /\ pc[r] = "update"
                /\ LAST_CHECKED'[r] >= LAST_CHECKED[r]
                /\ log'[r] = log[r] /\ calls'[r] = calls[r]
                /\ requests'[r] = requests[r]
        /\ Terminal(r) =>
                /\ pc'[r] = pc[r] /\ LAST_CHECKED'[r] = LAST_CHECKED[r]
                /\ log'[r] = log[r] /\ calls'[r] = calls[r]
                /\ requests'[r] = requests[r]

\* The iterations of an ended run: one per entry up to and including the
\* first entry with a thumbnail, all entries when none has one.
IterationsBounded ==
    \A r \in Runs :
        /\ Iterations(r) <= Len(new_articles[r])
        /\ pc[r] = "raised" => exc[r] # None
        /\ pc[r] \in {"update", "done"} =>
            /\ exc[r] = None
            /\ Len(new_articles[r]) = 0 => calls[r] = <<>> /\ requests[r] = <<>>
            /\ \A k \in CallsOf(r, "fetch_thumbnail") :
                    IF Absent(calls[r][k].ret)
                      THEN calls[r][k].idx < Len(new_articles[r])
                                => Iterations(r) > calls[r][k].idx
                      ELSE Iterations(r) = calls[r][k].idx
            /\ Iterations(r) = IF CallsOf(r, "post_to_instagram") = {}
                                 THEN Len(new_articles[r])
                                 ELSE calls[r][Len(calls[r])].idx

====
